---- MODULE Spec2Model ----
(***************************************************************************)
(* Model of src/hydratorpipeline.py (and its driver src/hydrate.py): the   *)
(* Extractor externaltweets, the Hydrator harvest_external_data and the    *)
(* two directory walkers getfiles and harvestfiles, over a file system.    *)
(*                                                                         *)
(* A file name is a sequence of tokens.  The tokens form a prefix-free     *)
(* code ("." is a token of its own, no other token holds a dot), so two    *)
(* names are equal as token sequences exactly when they are equal as       *)
(* strings, and Python's string operations on names (concatenation, find,  *)
(* os.path.splitext) are computed here on the token sequences.             *)
(* A path is <<directory, name>>, the directory a sequence of names.        *)
(***************************************************************************)
EXTENDS Integers, Sequences, FiniteSets, TLC

VARIABLES
    fs,          \* the file system: path |-> [kind, lines] for each existing entry
    pc,          \* "idle", or the directory walker that is running
    subfolders,  \* walker local: the subfolders not yet visited
    files,       \* walker local: the selected files of the current subfolder not yet processed
    problems,    \* walker local: the failure list (hydratorpipeline.py:90, 136)
    calls,       \* the paths the current/last walker passed to its method, in order
    reported,    \* the failure list the last walker printed at its end
    last         \* the last finished top-level call: [fn, path, outcome, ret,
                 \* received, prev]; prev is the fn and outcome of the call before it

vars == <<fs, pc, subfolders, files, problems, calls, reported, last>>

----------------------------------------------------------------------------
(* Bounds of the model. *)

MaxRows == 2    \* rows of a tabular input file
MaxLines == 10  \* lines of an identifier list given to the Hydrator directly
MaxRecs == 7    \* records the hydrate stream yields to a Hydrator called directly
MaxWalkRecs == 2   \* records the hydrate stream yields to a Hydrator under the walker

----------------------------------------------------------------------------
(* Strings and paths. *)

Dot == "."

\* What a call hands back: `return` without an expression is None.
ReturnNone == [isNone |-> TRUE, value |-> <<>>]

\* s.find(sub) for a one-token sub: the 0-based index of its first occurrence, or -1.
Find(s, sub) ==
    IF \E i \in 1..Len(s) : s[i] = sub
    THEN (CHOOSE i \in 1..Len(s) : s[i] = sub /\ \A j \in 1..(i-1) : s[j] # sub) - 1
    ELSE -1

\* str(f) of an os.DirEntry: "<DirEntry 'name'>".
DirEntryStr(name) == <<"<DirEntry '">> \o name \o <<"'>">>

\* os.path.splitext(p)[-1]: from the last dot of the name on, unless every
\* character before that dot is a dot too (leading dots are no extension).
SplitExt(name) ==
    LET dots == {i \in 1..Len(name) : name[i] = Dot}
    IN  IF dots = {} THEN <<>>
        ELSE LET d == CHOOSE i \in dots : \A j \in dots : j <= i
             IN  IF \A j \in 1..(d-1) : name[j] = Dot
                 THEN <<>>
                 ELSE SubSeq(name, d, Len(name))

Dir(path) == path[1]
Name(path) == path[2]

\* path + suffix (string concatenation on the file name).
Plus(path, suffix) == <<Dir(path), Name(path) \o suffix>>

CsvExt == <<Dot, "csv">>
RetweetsSuffix == <<"_retweets">>
RepliesSuffix == <<"_replies">>
QuotesSuffix == <<"_quotes">>
JsonlSuffix == <<Dot, "jsonl">>
LogSuffix == <<Dot, "log">>

----------------------------------------------------------------------------
(* The file system. *)

Exists(f, path) == path \in DOMAIN f

IsDir(f, path) == Exists(f, path) /\ f[path].kind = "dir"

\* The path of a directory entry, as a directory.
AsDir(path) == Append(Dir(path), Name(path))

\* os.scandir(d): every entry of directory d, files and directories alike.
ScanDir(f, d) == {p \in DOMAIN f : Dir(p) = d}

DirEntry == [kind |-> "dir", lines |-> <<>>]

\* open(path, 'w') ... close: the file is created or truncated and holds `lines`.
WriteFile(f, path, kind, lines) ==
    [q \in DOMAIN f \cup {path} |->
        IF q = path THEN [kind |-> kind, lines |-> lines] ELSE f[q]]

\* The set of the elements of a sequence.
Range(s) == {s[i] : i \in 1..Len(s)}

\* All orders in which iterating a set can yield its elements.
Orders(S) ==
    {s \in [1..Cardinality(S) -> S] : \A i, j \in 1..Cardinality(S) : i # j => s[i] # s[j]}

----------------------------------------------------------------------------
(* The Extractor: externaltweets (hydratorpipeline.py:30-83). *)

Fields ==
    {"retweet_userid", "retweet_tweetid", "in_reply_to_userid",
     "in_reply_to_tweetid", "quoted_tweet_tweetid"}

\* row[field] raises for a row without the field (a header that lacks the
\* column: KeyError; a short row: the value is None and len(None) is a TypeError).
RowRaises(row) == Fields \ DOMAIN row # {}

\* hydratorpipeline.py:56.  The first definition is the faulty variant that
\* does not look at retweet_userid.
IsExternalRetweetNoUserCheck(row) == Len(row.retweet_tweetid) > 0
IsExternalRetweet(row) ==
    (Len(row.retweet_userid) = 0) /\ (Len(row.retweet_tweetid) > 0)

\* hydratorpipeline.py:60.  The first definition is the variant that asks for
\* an empty in_reply_to_userid, as the retweet rule does.
IsExternalReplyStrict(row) ==
    (Len(row.in_reply_to_userid) = 0) /\ (Len(row.in_reply_to_tweetid) > 0)
IsExternalReply(row) ==
    (Len(row.in_reply_to_userid) >= 0) /\ (Len(row.in_reply_to_tweetid) > 0)

\* hydratorpipeline.py:64.  The first definition is the faulty variant that
\* lets the retweet field decide too.
IsExternalQuoteNotRetweet(row) ==
    Len(row.quoted_tweet_tweetid) > 0 /\ Len(row.retweet_tweetid) = 0
IsExternalQuote(row) == Len(row.quoted_tweet_tweetid) > 0

\* The loop over the rows (hydratorpipeline.py:54-65), from row i on, with the
\* three sets built so far: the sets after the last row, or raised at a row.
RECURSIVE ScanRows(_, _, _)
ScanRows(rows, i, acc) ==
    IF i > Len(rows) THEN acc
    ELSE IF RowRaises(rows[i]) THEN [acc EXCEPT !.raised = TRUE]
    ELSE LET row == rows[i]
             rt == IF IsExternalRetweet(row)
                   THEN acc.retweets \cup {row.retweet_tweetid} ELSE acc.retweets
             rp == IF IsExternalReply(row)
                   THEN acc.replies \cup {row.in_reply_to_tweetid} ELSE acc.replies
             qt == IF IsExternalQuote(row)
                   THEN acc.quotes \cup {row.quoted_tweet_tweetid} ELSE acc.quotes
         IN  ScanRows(rows, i + 1,
                      [raised |-> FALSE, retweets |-> rt, replies |-> rp, quotes |-> qt])

\* hydratorpipeline.py:48-50
EmptySets == [raised |-> FALSE, retweets |-> {}, replies |-> {}, quotes |-> {}]

Scan(rows) == ScanRows(rows, 1, EmptySets)

\* hydratorpipeline.py:36-45, with the default output paths.
OutpathRt(path) == Plus(path, RetweetsSuffix)
OutpathRp(path) == Plus(path, RepliesSuffix)
OutpathQt(path) == Plus(path, QuotesSuffix)

\* open(outpath, 'w') and one writerow per element (hydratorpipeline.py:67-80);
\* `order` is the order in which the set was iterated.  AppendIds is the
\* faulty variant that opens in append mode.
AppendIds(f, path, order) ==
    WriteFile(f, path, "ids",
              (IF Exists(f, path) /\ f[path].kind = "ids" THEN f[path].lines ELSE <<>>)
                  \o order)
WriteIds(f, path, order) == WriteFile(f, path, "ids", order)

\* The file system after externaltweets(path) on file system f, the three sets
\* iterated in the orders ort, orp, oqt.  Nothing is opened for writing before
\* the scan has ended; ExternalTweetsFsEager is the faulty variant that opens
\* the three outputs first.
ExternalTweetsFsEager(f, path, sets, ort, orp, oqt) ==
    IF sets.raised
    THEN WriteIds(WriteIds(WriteIds(f, OutpathRt(path), <<>>),
                           OutpathRp(path), <<>>), OutpathQt(path), <<>>)
    ELSE WriteIds(WriteIds(WriteIds(f, OutpathRt(path), ort),
                           OutpathRp(path), orp), OutpathQt(path), oqt)
ExternalTweetsFs(f, path, sets, ort, orp, oqt) ==
    IF sets.raised THEN f
    ELSE WriteIds(WriteIds(WriteIds(f, OutpathRt(path), ort),
                           OutpathRp(path), orp), OutpathQt(path), oqt)

\* Every way externaltweets(path) can end on file system f: the file system it
\* leaves and whether it returned or raised.
ExternalTweetsResults(f, path) ==
    IF ~Exists(f, path) \/ f[path].kind # "csv"
    THEN \* open(path) or the reader raises (hydratorpipeline.py:52-54)
         {[fs |-> f, outcome |-> "IOError", received |-> <<>>]}
    ELSE LET sets == Scan(f[path].lines)
         IN  IF sets.raised
             THEN {[fs |-> ExternalTweetsFs(f, path, sets, <<>>, <<>>, <<>>),
                    outcome |-> "ParseError", received |-> <<>>]}
             ELSE {[fs |-> ExternalTweetsFs(f, path, sets, ort, orp, oqt),
                    outcome |-> "returned", received |-> <<>>] :
                      ort \in Orders(sets.retweets), orp \in Orders(sets.replies),
                      oqt \in Orders(sets.quotes)}

----------------------------------------------------------------------------
(* The Hydrator: harvest_external_data (hydratorpipeline.py:109-130). *)

\* What t.hydrate(...) can yield before it ends or fails: a finite sequence of
\* records, each a different tweet, here numbered in the order of arrival.
StreamsUpTo(max) == {[i \in 1..n |-> i] : n \in 0..max}

Streams == StreamsUpTo(MaxRecs)

\* a // b rounded half to even, for a >= 0 and b > 0.
RoundHalfEven(a, b) ==
    LET q == a \div b
        r == a % b
    IN  IF 2 * r > b \/ (2 * r = b /\ q % 2 = 1) THEN q + 1 ELSE q

\* round(collected/num_lines*100, ndigits=2), in hundredths of a percent
\* (hydratorpipeline.py:130).  Python rounds the float to the nearest value with
\* two decimals; the integer computation agrees with it for every num_lines the
\* model reaches.  A zero num_lines is the ZeroDivisionError of the division.
\* RecoveredTruncated is the faulty variant that cuts the third decimal off.
RecoveredTruncated(collected, num_lines) == (10000 * collected) \div num_lines
Recovered(collected, num_lines) == RoundHalfEven(10000 * collected, num_lines)

\* The loop over the stream (hydratorpipeline.py:123-126): one line printed and
\* one increment per record.
RECURSIVE Consume(_, _, _)
Consume(stream, i, acc) ==
    IF i > Len(stream) THEN acc
    ELSE Consume(stream, i + 1,
                 [out |-> Append(acc.out, stream[i]), collected |-> acc.collected + 1])

ConsumeAll(stream) == Consume(stream, 1, [out |-> <<>>, collected |-> 0])

\* sum(1 for _ in open(path)) (hydratorpipeline.py:116)
NumLines(f, path) == Len(f[path].lines)

\* The report line (hydratorpipeline.py:130).
ReportLine(num_lines, collected) ==
    [total |-> num_lines, collected |-> collected,
     recovered |-> Recovered(collected, num_lines)]

\* with open(path + '.log', 'w') as f: print(<report>, file=f)
\* (hydratorpipeline.py:129-130): the file is opened, hence created or
\* truncated, before the report line is formatted.  WriteReportGuarded is the
\* variant that guards the division and reports 0.
WriteReportGuarded(f, path, num_lines, collected) ==
    IF num_lines = 0
    THEN [fs |-> WriteFile(f, Plus(path, LogSuffix), "log",
                           <<[total |-> 0, collected |-> collected, recovered |-> 0]>>),
          outcome |-> "returned"]
    ELSE [fs |-> WriteFile(f, Plus(path, LogSuffix), "log",
                           <<ReportLine(num_lines, collected)>>),
          outcome |-> "returned"]
WriteReport(f, path, num_lines, collected) ==
    IF num_lines = 0
    THEN [fs |-> WriteFile(f, Plus(path, LogSuffix), "log", <<>>),
          outcome |-> "ZeroDivisionError"]
    ELSE [fs |-> WriteFile(f, Plus(path, LogSuffix), "log",
                           <<ReportLine(num_lines, collected)>>),
          outcome |-> "returned"]

\* The stream failed after the records of `stream` (hydratorpipeline.py:121-126):
\* the with statement closes the output file, which holds the lines printed so
\* far, and the error leaves the function before line 129.
\* StreamFailedThenReport is the faulty variant that writes the report first.
StreamFailedThenReport(f, path, num_lines, stream) ==
    [WriteReport(WriteFile(f, Plus(path, JsonlSuffix), "jsonl", ConsumeAll(stream).out),
                 path, num_lines, ConsumeAll(stream).collected)
        EXCEPT !.outcome = "ConnectionError"]
StreamFailed(f, path, num_lines, stream) ==
    [fs |-> WriteFile(f, Plus(path, JsonlSuffix), "jsonl", ConsumeAll(stream).out),
     outcome |-> "ConnectionError"]

\* The stream ended after the records of `stream`.
StreamEnded(f, path, num_lines, stream) ==
    WriteReport(WriteFile(f, Plus(path, JsonlSuffix), "jsonl", ConsumeAll(stream).out),
                path, num_lines, ConsumeAll(stream).collected)

\* Every way harvest_external_data(path) can end on file system f, the hydrate
\* operation yielding one of `streams`.
HarvestResults(f, path, streams) ==
    \* Twarc(...) raises (hydratorpipeline.py:114): nothing has been opened yet
    {[fs |-> f, outcome |-> "SetupError", received |-> <<>>]}
    \cup
    (IF ~Exists(f, path) \/ IsDir(f, path)
     THEN \* open(path) raises (hydratorpipeline.py:116)
          {[fs |-> f, outcome |-> "IOError", received |-> <<>>]}
     ELSE {[fs |-> StreamFailed(f, path, NumLines(f, path), s).fs,
            outcome |-> StreamFailed(f, path, NumLines(f, path), s).outcome,
            received |-> s] : s \in streams}
          \cup
          {[fs |-> StreamEnded(f, path, NumLines(f, path), s).fs,
            outcome |-> StreamEnded(f, path, NumLines(f, path), s).outcome,
            received |-> s] : s \in streams})

----------------------------------------------------------------------------
(* The directory walkers: getfiles (hydratorpipeline.py:85-107) and          *)
(* harvestfiles (hydratorpipeline.py:132-154).                               *)

\* hydratorpipeline.py:95: str(f).find('_tweets') > 0 and the extension is '.csv'
GetfilesSelects(name) ==
    /\ Find(DirEntryStr(name), "_tweets") > 0
    /\ SplitExt(name) = CsvExt

\* hydratorpipeline.py:141: the extension is '.csv_retweets' or '.csv_replies'.
\* HarvestSelectsQuotesToo is the variant that takes the quotes lists as well.
HarvestSelectsQuotesToo(name) ==
    \/ SplitExt(name) = CsvExt \o RetweetsSuffix
    \/ SplitExt(name) = CsvExt \o RepliesSuffix
    \/ SplitExt(name) = CsvExt \o QuotesSuffix
HarvestSelects(name) ==
    \/ SplitExt(name) = CsvExt \o RetweetsSuffix
    \/ SplitExt(name) = CsvExt \o RepliesSuffix

\* hydratorpipeline.py:92, 138: the entries of datafolder that are directories
Subfolders(f, datafolder) == {AsDir(p) : p \in {q \in ScanDir(f, datafolder) : IsDir(f, q)}}

\* except: problems.append(f) (hydratorpipeline.py:100-102, 147-149).
\* ProblemsAfterDropped is the faulty variant that forgets the path.
ProblemsAfterDropped(probs, path, outcome) == probs
ProblemsAfter(probs, path, outcome) ==
    IF outcome # "returned" THEN Append(probs, path) ELSE probs

\* The files of the current subfolder still to process after the call on
\* `path` ended: the loop goes on whether or not the call raised.
RemainingAfter(fileset, path, outcome) == fileset \ {path}

\* The value the walkers hand back (hydratorpipeline.py:107, 154).
WalkerReturn(probs) == ReturnNone

\* The streams the hydrate operation yields under the hydration walker.
WalkStreams == StreamsUpTo(MaxWalkRecs)

WalkerBegin(fn, datafolder) ==
    /\ pc = "idle"
    /\ pc' = fn
    /\ problems' = <<>>
    /\ subfolders' = Subfolders(fs, datafolder)
    /\ files' = {}
    /\ calls' = <<>>
    /\ UNCHANGED <<fs, reported, last>>

WalkerEnd(fn, datafolder) ==
    /\ pc = fn
    /\ subfolders = {}
    /\ files = {}
    /\ pc' = "idle"
    /\ reported' = problems
    /\ last' = [fn |-> fn, path |-> datafolder, outcome |-> "returned",
                ret |-> WalkerReturn(problems), received |-> <<>>,
                prev |-> [fn |-> last.fn, outcome |-> last.outcome]]
    /\ UNCHANGED <<fs, subfolders, files, problems, calls>>

WalkerFile(path, r) ==
    /\ fs' = r.fs
    /\ calls' = Append(calls, [path |-> path, outcome |-> r.outcome,
                               received |-> r.received])
    /\ problems' = ProblemsAfter(problems, path, r.outcome)
    /\ files' = RemainingAfter(files, path, r.outcome)
    /\ UNCHANGED <<pc, subfolders, reported, last>>

Root == << <<"demodata">> >>

GetfilesBegin == WalkerBegin("getfiles", Root)

GetfilesScan ==
    /\ pc = "getfiles"
    /\ files = {}
    /\ \E s \in subfolders :
        /\ subfolders' = subfolders \ {s}
        /\ files' = {p \in ScanDir(fs, s) : GetfilesSelects(Name(p))}
    /\ UNCHANGED <<fs, pc, problems, calls, reported, last>>

GetfilesFile ==
    /\ pc = "getfiles"
    /\ \E path \in files : \E r \in ExternalTweetsResults(fs, path) : WalkerFile(path, r)

GetfilesEnd == WalkerEnd("getfiles", Root)

HarvestfilesBegin == WalkerBegin("harvestfiles", Root)

HarvestfilesScan ==
    /\ pc = "harvestfiles"
    /\ files = {}
    /\ \E s \in subfolders :
        /\ subfolders' = subfolders \ {s}
        /\ files' = {p \in ScanDir(fs, s) : HarvestSelects(Name(p))}
    /\ UNCHANGED <<fs, pc, problems, calls, reported, last>>

HarvestfilesFile ==
    /\ pc = "harvestfiles"
    /\ \E path \in files : \E r \in HarvestResults(fs, path, WalkStreams) : WalkerFile(path, r)

HarvestfilesEnd == WalkerEnd("harvestfiles", Root)

----------------------------------------------------------------------------
(* The leaf operations called on their own (src/hydrate.py:29-30). *)

ExternalTweets(path) ==
    /\ pc = "idle"
    /\ \E r \in ExternalTweetsResults(fs, path) :
        /\ fs' = r.fs
        /\ last' = [fn |-> "externaltweets", path |-> path, outcome |-> r.outcome,
                    ret |-> ReturnNone, received |-> r.received,
                    prev |-> [fn |-> last.fn, outcome |-> last.outcome]]
    /\ UNCHANGED <<pc, subfolders, files, problems, calls, reported>>

HarvestExternalData(path) ==
    /\ pc = "idle"
    /\ \E r \in HarvestResults(fs, path, Streams) :
        /\ fs' = r.fs
        /\ last' = [fn |-> "harvest_external_data", path |-> path, outcome |-> r.outcome,
                    ret |-> ReturnNone, received |-> r.received,
                    prev |-> [fn |-> last.fn, outcome |-> last.outcome]]
    /\ UNCHANGED <<pc, subfolders, files, problems, calls, reported>>

----------------------------------------------------------------------------
(* The data the specifications start from. *)

SubA == Append(Root, <<"dataset_A">>)
SubB == Append(Root, <<"dataset_B">>)
Nested == Append(SubA, <<"a">>)

\* The directory tree: the root, two subfolders, and a folder inside one.
Tree ==
    (<<Root, <<"dataset_A">>>> :> DirEntry) @@ (<<Root, <<"dataset_B">>>> :> DirEntry)
        @@ (<<SubA, <<"a">>>> :> DirEntry)

TweetsCsv == <<"a", "_tweets", Dot, "csv">>        \* a_tweets.csv
DottedCsv == <<"_tweets", Dot, "a", Dot, "csv">>   \* _tweets.a.csv
PlainCsv == <<"a", Dot, "csv">>                    \* a.csv
HandMadeList == <<"externaltweets", Dot, "csv", "_replies">>   \* hydrate.py:29

WellFormedRows ==
    [retweet_userid : {"", "u1"}, retweet_tweetid : {"", "111", "112"},
     in_reply_to_userid : {"", "u2"}, in_reply_to_tweetid : {"", "222"},
     quoted_tweet_tweetid : {"", "333"}]

\* Rows that lack a field: a short row, and a row of a file whose header lacks a column.
MalformedRows ==
    {[retweet_userid |-> "", retweet_tweetid |-> "111", in_reply_to_userid |-> "",
      in_reply_to_tweetid |-> "222"],
     [retweet_tweetid |-> "112", in_reply_to_userid |-> "u2",
      in_reply_to_tweetid |-> "222", quoted_tweet_tweetid |-> "333"]}

RowDomain == WellFormedRows \cup MalformedRows

Inputs == UNION {[1..n -> RowDomain] : n \in 0..MaxRows}

Csv(rows) == [kind |-> "csv", lines |-> rows]
IdList(ids) == [kind |-> "ids", lines |-> ids]

\* The end-to-end scenario's three rows in one: each kind of interaction once.
GoodRows ==
    <<[retweet_userid |-> "", retweet_tweetid |-> "111", in_reply_to_userid |-> "",
       in_reply_to_tweetid |-> "222", quoted_tweet_tweetid |-> "333"]>>
\* No external retweet: the retweets output is an empty file.
NoRetweetRows ==
    <<[retweet_userid |-> "u1", retweet_tweetid |-> "111", in_reply_to_userid |-> "u2",
       in_reply_to_tweetid |-> "222", quoted_tweet_tweetid |-> ""]>>
\* A second row that lacks a field.
BadRows ==
    GoodRows \o <<[retweet_userid |-> "", retweet_tweetid |-> "111",
                   in_reply_to_userid |-> "", in_reply_to_tweetid |-> "222"]>>

\* Files no walker may touch: beside the subfolders, and two levels down.
Decoys ==
    (<<Root, TweetsCsv>> :> Csv(GoodRows)) @@ (<<Nested, TweetsCsv>> :> Csv(GoodRows))
        @@ (<<Root, TweetsCsv \o RetweetsSuffix>> :> IdList(<<"111">>))
        @@ (<<Nested, TweetsCsv \o RepliesSuffix>> :> IdList(<<"222">>))

Idle ==
    /\ pc = "idle"
    /\ subfolders = {}
    /\ files = {}
    /\ problems = <<>>
    /\ calls = <<>>
    /\ reported = <<>>
    /\ last = [fn |-> "none", path |-> Root, outcome |-> "returned", ret |-> ReturnNone,
               received |-> <<>>, prev |-> [fn |-> "none", outcome |-> "returned"]]

\* The pipeline: one tabular input in a subfolder, another without "_tweets"
\* in its name, and the decoys.
Init ==
    /\ Idle
    /\ \E rows \in {GoodRows, NoRetweetRows, BadRows}, name \in {TweetsCsv, DottedCsv} :
        fs = Tree @@ Decoys @@ (<<SubA, name>> :> Csv(rows))
                  @@ (<<SubA, PlainCsv>> :> Csv(GoodRows))

Next ==
    \/ GetfilesBegin
    \/ GetfilesScan
    \/ GetfilesFile
    \/ GetfilesEnd
    \/ HarvestfilesBegin
    \/ HarvestfilesScan
    \/ HarvestfilesFile
    \/ HarvestfilesEnd

Spec == Init /\ [][Next]_vars

\* The extraction walker over three selected files, any of which may be malformed.
InitGetfiles ==
    /\ Idle
    /\ \E r1, r2, r3 \in {GoodRows, BadRows} :
        fs = Tree @@ Decoys @@ (<<SubA, TweetsCsv>> :> Csv(r1))
                  @@ (<<SubA, DottedCsv>> :> Csv(r2))
                  @@ (<<SubB, TweetsCsv>> :> Csv(r3))
                  @@ (<<SubA, PlainCsv>> :> Csv(GoodRows))

NextGetfiles ==
    \/ GetfilesBegin
    \/ GetfilesScan
    \/ GetfilesFile
    \/ GetfilesEnd

SpecGetfiles == InitGetfiles /\ [][NextGetfiles]_vars

\* The Extractor on one input file of any rows, with or without the outputs
\* of an earlier run on what the file held then.
ExtractInput == <<SubA, TweetsCsv>>

OldOutputs ==
    (OutpathRt(ExtractInput) :> IdList(<<"999">>))
        @@ (OutpathRp(ExtractInput) :> IdList(<<"999">>))
        @@ (OutpathQt(ExtractInput) :> IdList(<<"999">>))

InitExtract ==
    /\ Idle
    /\ \E rows \in Inputs :
        \/ fs = Tree @@ (ExtractInput :> Csv(rows))
        \/ fs = Tree @@ (ExtractInput :> Csv(rows)) @@ OldOutputs

NextExtract == ExternalTweets(ExtractInput)

SpecExtract == InitExtract /\ [][NextExtract]_vars

\* The Hydrator on one identifier list of any length.
HydrateInput == <<SubA, HandMadeList>>

InitHydrate ==
    /\ Idle
    /\ \E n \in 0..MaxLines :
        fs = Tree @@ (HydrateInput :> IdList([i \in 1..n |-> "222"]))

NextHydrate == HarvestExternalData(HydrateInput)

SpecHydrate == InitHydrate /\ [][NextHydrate]_vars

----------------------------------------------------------------------------
(* Vocabulary of the properties. *)

CallPaths(cs) == {cs[i].path : i \in 1..Len(cs)}

\* A call handing back the value v.
ReturnValue(v) == [isNone |-> FALSE, value |-> v]

IsFailure(c) == c.outcome # "returned"

\* The paths of the calls that raised, in processing order.
FailedPaths(cs) ==
    [i \in 1..Len(SelectSeq(cs, IsFailure)) |-> SelectSeq(cs, IsFailure)[i].path]

\* p lies in an immediate subdirectory of the root.
InSubfolder(p) ==
    /\ Len(Dir(p)) = Len(Root) + 1
    /\ SubSeq(Dir(p), 1, Len(Root)) = Root

\* The name ends with the extension ext (a dot and dot-free text), and
\* something other than dots precedes it.
HasExtension(name, ext) ==
    /\ Len(name) > Len(ext)
    /\ SubSeq(name, Len(name) - Len(ext) + 1, Len(name)) = ext
    /\ \E j \in 1..(Len(name) - Len(ext)) : name[j] # Dot

LastToken(name) == name[Len(name)]

Lines(f, p) == IF Exists(f, p) THEN f[p].lines ELSE <<>>

\* Path p is the same in both file systems: absent in both, or the same content.
SameFile(f1, f2, p) ==
    /\ Exists(f1, p) <=> Exists(f2, p)
    /\ Exists(f1, p) => f1[p] = f2[p]

Count(seq, x) == Cardinality({i \in 1..Len(seq) : seq[i] = x})

Abs(n) == IF n < 0 THEN -n ELSE n

AllTexts == {"", "u1", "u2", "111", "112", "222", "333", "999"}

GetfilesDone == pc = "idle" /\ last.fn = "getfiles"
HarvestfilesDone == pc = "idle" /\ last.fn = "harvestfiles"
ExtractDone == last.fn = "externaltweets" /\ last.outcome = "returned"
HydrateDone == last.fn = "harvest_external_data"

\* The files the extraction walker is to process: tabular files with "_tweets"
\* in their name and the extension .csv, in the immediate subdirectories.
GetfilesTargets ==
    {p \in DOMAIN fs : /\ InSubfolder(p)
                       /\ "_tweets" \in Range(Name(p))
                       /\ HasExtension(Name(p), <<Dot, "csv">>)}

\* The files the hydration walker is to process.
HarvestTargets ==
    {p \in DOMAIN fs : /\ InSubfolder(p)
                       /\ \/ HasExtension(Name(p), <<Dot, "csv", "_retweets">>)
                          \/ HasExtension(Name(p), <<Dot, "csv", "_replies">>)}

\* The file at p holds a row that raises when it is processed.
MalformedFile(p) == \E i \in 1..Len(fs[p].lines) : RowRaises(fs[p].lines[i])

----------------------------------------------------------------------------
(* C1, under SpecGetfiles. *)

\* What C1 says of the calls and of the reported list: every selected file is
\* passed to the Extractor exactly once, also after a file that raised; a call
\* raised exactly when its file is malformed; and the failure list holds
\* exactly the paths that raised, in processing order.
C1_Processing ==
    /\ CallPaths(calls) = GetfilesTargets
    /\ Len(calls) = Cardinality(GetfilesTargets)
    /\ \A i \in 1..Len(calls) : IsFailure(calls[i]) <=> MalformedFile(calls[i].path)
    /\ reported = FailedPaths(calls)

\* C1 as stated: when getfiles ends it has processed every selected file,
\* also those after a failing one, and RETURNS the failure list: exactly the
\* paths that raised, in processing order.
C1_ReturnsFailureList ==
    GetfilesDone => C1_Processing /\ last.ret = ReturnValue(FailedPaths(calls))

\* C1 as amended: when getfiles ends it has processed every selected file,
\* also those after a failing one, and has PRINTED the failure list (exactly
\* the paths that raised, in processing order); it returns None.
C1_ReportsFailureList ==
    GetfilesDone => C1_Processing /\ last.ret = ReturnNone

\* Three files, only the second raises, the third is processed.
C1_SecondOfThreeRaises ==
    /\ GetfilesDone
    /\ Len(calls) = 3
    /\ ~IsFailure(calls[1]) /\ IsFailure(calls[2]) /\ ~IsFailure(calls[3])
    /\ reported = <<calls[2].path>>
    /\ Exists(fs, OutpathRt(calls[3].path))

----------------------------------------------------------------------------
(* C2, C3, C4, C8, C10, under SpecExtract. *)

InputRows == fs[ExtractInput].lines
RetweetsFile == <<SubA, TweetsCsv \o <<"_retweets">>>>
RepliesFile == <<SubA, TweetsCsv \o <<"_replies">>>>
QuotesFile == <<SubA, TweetsCsv \o <<"_quotes">>>>
OutputFiles == {RetweetsFile, RepliesFile, QuotesFile}

\* C2: after the Extractor has scanned the input, an identifier x is a line
\* of the retweets file exactly once if some row has retweet_userid = "" and
\* retweet_tweetid = x with x non-empty, and is no line of it otherwise.
C2_RetweetsOnce ==
    ExtractDone =>
        /\ Exists(fs, RetweetsFile)
        /\ \A x \in AllTexts \cup Range(Lines(fs, RetweetsFile)) :
            Count(fs[RetweetsFile].lines, x) =
                IF \E i \in 1..Len(InputRows) :
                       /\ InputRows[i].retweet_userid = ""
                       /\ InputRows[i].retweet_tweetid = x
                       /\ x # ""
                THEN 1 ELSE 0

\* Two rows carry the same external retweet, which is written once.
C2_DuplicateRows ==
    /\ ExtractDone
    /\ Len(InputRows) = 2
    /\ \A i \in 1..2 : InputRows[i].retweet_userid = "" /\ InputRows[i].retweet_tweetid = "111"
    /\ fs[RetweetsFile].lines = <<"111">>

C4_QuotesExactly ==
    ExtractDone =>
        /\ Exists(fs, QuotesFile)
        /\ Range(fs[QuotesFile].lines) =
              {InputRows[i].quoted_tweet_tweetid :
                  i \in {j \in 1..Len(InputRows) : InputRows[j].quoted_tweet_tweetid # ""}}
        /\ Len(fs[QuotesFile].lines) = Cardinality(Range(fs[QuotesFile].lines))

\* A quoting row that is also a retweet and a reply, and a row that quotes nothing.
C4_QuoteAmongOtherFields ==
    /\ ExtractDone
    /\ Len(InputRows) = 2
    /\ InputRows[1].quoted_tweet_tweetid = "333"
    /\ InputRows[1].retweet_tweetid = "111"
    /\ InputRows[1].in_reply_to_tweetid = "222"
    /\ InputRows[2].quoted_tweet_tweetid = ""
    /\ InputRows[2].retweet_tweetid = "112"
    /\ fs[QuotesFile].lines = <<"333">>

\* C8: a run of the Extractor that follows a run that returned, on the
\* unchanged input, leaves each output file with the same set of identifiers,
\* each written once: nothing is appended or accumulated.
C8_Idempotent ==
    [][(ExtractDone /\ last'.fn = "externaltweets") =>
          \A out \in OutputFiles :
              /\ Exists(fs', out)
              /\ Range(fs'[out].lines) = Range(fs[out].lines)
              /\ Len(fs'[out].lines) = Cardinality(Range(fs[out].lines))]_vars

\* The state after a second run, over outputs that held two identifiers.
C8_SecondRun ==
    /\ ExtractDone
    /\ last.prev.fn = "externaltweets"
    /\ last.prev.outcome = "returned"
    /\ Range(fs[RetweetsFile].lines) = {"111", "112"}
    /\ Range(fs[RepliesFile].lines) = {"222"}

\* C10: the Extractor raises exactly when a row of the input raises, and
\* then none of the three output files was created, truncated or modified:
\* they are absent, or hold what the earlier run left.
C10_NoOutputOnRaise ==
    last.fn = "externaltweets" =>
        /\ MalformedFile(ExtractInput) <=> last.outcome = "ParseError"
        /\ last.outcome = "ParseError" =>
              \/ \A out \in OutputFiles : ~Exists(fs, out)
              \/ \A out \in OutputFiles : Exists(fs, out) /\ fs[out] = OldOutputs[out]

\* The second row raises after the first was scanned; the earlier outputs stand.
C10_RaiseAfterGoodRow ==
    /\ last.fn = "externaltweets"
    /\ last.outcome = "ParseError"
    /\ Len(InputRows) = 2
    /\ ~RowRaises(InputRows[1])
    /\ InputRows[1].retweet_userid = "" /\ InputRows[1].retweet_tweetid = "111"
    /\ RowRaises(InputRows[2])
    /\ \A out \in OutputFiles : Exists(fs, out) /\ fs[out].lines = <<"999">>

----------------------------------------------------------------------------
(* C5, C6, under SpecHydrate. *)

TotalRequested == Len(fs[HydrateInput].lines)
JsonlFile == <<SubA, HandMadeList \o <<Dot, "jsonl">>>>
LogFile == <<SubA, HandMadeList \o <<Dot, "log">>>>

\* C5: when the Hydrator returns on an input of N > 0 lines, having received
\* k records, the output file holds those k records, one line each, and the
\* report holds one line with total N, collected k and the recovery percent
\* 100*k/N rounded to two decimals (here in hundredths: the nearest integer
\* to 10000*k/N).
C5_Report ==
    (HydrateDone /\ last.outcome = "returned") =>
        /\ TotalRequested > 0
        /\ Exists(fs, JsonlFile) /\ fs[JsonlFile].lines = last.received
        /\ Exists(fs, LogFile) /\ Len(fs[LogFile].lines) = 1
        /\ fs[LogFile].lines[1].total = TotalRequested
        /\ fs[LogFile].lines[1].collected = Len(last.received)
        /\ 2 * Abs(fs[LogFile].lines[1].recovered * TotalRequested
                     - 10000 * Len(last.received)) <= TotalRequested

\* Ten lines requested, seven records received: collected 7, recovered 70.0.
C5_SevenOfTen ==
    /\ HydrateDone /\ last.outcome = "returned"
    /\ TotalRequested = 10
    /\ Len(last.received) = 7
    /\ fs[LogFile].lines = <<[total |-> 10, collected |-> 7, recovered |-> 7000]>>
    /\ Len(fs[JsonlFile].lines) = 7

\* The report file holds no report line.
NoReportLine == Lines(fs, LogFile) = <<>>

\* C6 as stated: on an empty input file the Hydrator ends in a division
\* error, never returns normally and writes no report line.
C6_DivisionError ==
    (HydrateDone /\ TotalRequested = 0) =>
        last.outcome = "ZeroDivisionError" /\ NoReportLine

\* C6 as amended: on an empty input file the Hydrator never returns normally
\* and writes no report line; it ends in the division error unless the
\* connection setup or the hydrate stream raised first, and then that error
\* is what propagates.
C6_NeverReports ==
    (HydrateDone /\ TotalRequested = 0) =>
        /\ last.outcome \in {"ZeroDivisionError", "SetupError", "ConnectionError"}
        /\ NoReportLine
        /\ last.outcome = "ZeroDivisionError" =>
              Exists(fs, JsonlFile) /\ fs[JsonlFile].lines = last.received

\* The stream ended on an empty input: the division raised, the report file
\* was opened and holds nothing.
C6_EmptyInput ==
    /\ HydrateDone
    /\ TotalRequested = 0
    /\ last.outcome = "ZeroDivisionError"
    /\ Exists(fs, LogFile) /\ fs[LogFile].lines = <<>>

----------------------------------------------------------------------------
(* C7, C9, under Spec. *)

\* The calls of the hydration walker that is running or has just ended.
HarvestCalls == IF pc = "harvestfiles" \/ HarvestfilesDone THEN calls ELSE <<>>

\* The tabular inputs the Extractor has processed: its three outputs exist.
Extracted ==
    {p \in DOMAIN fs : /\ fs[p].kind = "csv"
                       /\ InSubfolder(p)
                       /\ \A sfx \in {RetweetsSuffix, RepliesSuffix, QuotesSuffix} :
                              Exists(fs, Plus(p, sfx))}

\* C7: the hydration walker passes to the Hydrator only files of immediate
\* subdirectories with the extension .csv_retweets or .csv_replies, never a
\* _quotes output, a .csv input or a .jsonl or .log file; and when it ends it
\* has passed every such file once, among them the _retweets and _replies
\* outputs of every input the Extractor has processed.
C7_Selection ==
    /\ \A i \in 1..Len(HarvestCalls) :
        /\ HarvestCalls[i].path \in HarvestTargets
        /\ LastToken(Name(HarvestCalls[i].path)) \notin {"_quotes", "csv", "jsonl", "log"}
    /\ HarvestfilesDone =>
        /\ CallPaths(calls) = HarvestTargets
        /\ Len(calls) = Cardinality(HarvestTargets)
        /\ \A p \in Extracted :
            /\ Plus(p, RetweetsSuffix) \in CallPaths(calls)
            /\ Plus(p, RepliesSuffix) \in CallPaths(calls)
            /\ Plus(p, QuotesSuffix) \notin CallPaths(calls)
            /\ p \notin CallPaths(calls)

\* A second hydration walk, over a folder that holds the .jsonl and .log files
\* of the first: it found them in place and passed only the two lists.
C7_SecondWalk ==
    /\ HarvestfilesDone
    /\ last.prev.fn = "harvestfiles"
    /\ Extracted = {<<SubA, DottedCsv>>}
    /\ Len(calls) = 2
    /\ \A i \in 1..2 :
        /\ calls[i].outcome = "SetupError"
        /\ Exists(fs, Plus(calls[i].path, JsonlSuffix))
        /\ Exists(fs, Plus(calls[i].path, LogSuffix))

\* The step in which the hydration walker's call on a file ends.
HarvestStep == pc = "harvestfiles" /\ Len(calls') = Len(calls) + 1

\* The walker records the path of a call that raised and goes on.
C9_Recorded(c) ==
    IsFailure(c) =>
        /\ problems' = Append(problems, c.path)
        /\ files' = files \ {c.path}
        /\ pc' = "harvestfiles"

\* C9 as stated: when the stream or the connection setup fails after k >= 0
\* records, the output file holds exactly those k records and the report file
\* is left as it was; the walker records the path and goes on to the next
\* selected file.
C9_ExactlyReceived ==
    [][HarvestStep =>
          LET c == calls'[Len(calls')]
          IN  /\ c.outcome \in {"ConnectionError", "SetupError"} =>
                    /\ Lines(fs', Plus(c.path, JsonlSuffix)) = c.received
                    /\ SameFile(fs, fs', Plus(c.path, LogSuffix))
              /\ C9_Recorded(c)]_vars

\* C9 as amended: when the stream fails after k >= 0 records, the output
\* file holds exactly those k records; when the connection setup fails, the
\* output file has not been opened and is left as it was, absent or holding
\* an earlier run's records.  Either way the report file is left as it was,
\* and the walker records the path and goes on: when it ends it has passed
\* every selected file and reported exactly the paths that raised.
C9_FailurePropagates ==
    /\ [][HarvestStep =>
            LET c == calls'[Len(calls')]
            IN  /\ c.outcome = "ConnectionError" =>
                      /\ Exists(fs', Plus(c.path, JsonlSuffix))
                      /\ fs'[Plus(c.path, JsonlSuffix)].lines = c.received
                      /\ SameFile(fs, fs', Plus(c.path, LogSuffix))
                /\ c.outcome = "SetupError" =>
                      /\ SameFile(fs, fs', Plus(c.path, JsonlSuffix))
                      /\ SameFile(fs, fs', Plus(c.path, LogSuffix))
                /\ C9_Recorded(c)]_vars
    /\ [](HarvestfilesDone =>
            /\ CallPaths(calls) = HarvestTargets
            /\ reported = FailedPaths(calls))

\* The stream failed after one record on the first file: its output holds
\* that record, it has no report, and the second file was hydrated.
C9_FailThenNext ==
    /\ HarvestfilesDone
    /\ Len(calls) = 2
    /\ calls[1].outcome = "ConnectionError"
    /\ Len(calls[1].received) = 1
    /\ fs[Plus(calls[1].path, JsonlSuffix)].lines = calls[1].received
    /\ ~Exists(fs, Plus(calls[1].path, LogSuffix))
    /\ calls[2].outcome = "returned"
    /\ Exists(fs, Plus(calls[2].path, LogSuffix))
    /\ reported = <<calls[1].path>>

====
